---- MODULE Spec2Model ----
(***************************************************************************)
(* A model of generate_package_list.py: parsing of a repository listing    *)
(* into RPackage records, resolution of a seed list into a topologically   *)
(* ordered build list, and the print / download / build sequence of main.  *)
(*                                                                         *)
(* Functions of the program that can raise are modelled as operators that  *)
(* yield outcomes: Return(v) or Raise(exc, arg).  Where the result depends *)
(* on the iteration order of a Python set (which varies with the hash seed *)
(* of the process) the operator yields the SET of outcomes of all orders.  *)
(***************************************************************************)
EXTENDS Naturals, Sequences, FiniteSets, TLC

\* ------------------------------------------------------------------------
\* Bounds of the model
\* ------------------------------------------------------------------------

\* The package names of the model, in the order Python's sorted() gives them
\* (code point order: upper case before lower case).
NameOrder == <<"A", "B", "C", "MASS">>

Names == {NameOrder[i] : i \in DOMAIN NameOrder}

\* The most dependency edges a repository listing of the model declares.
MaxEdges == 3

\* The most lines of the seed file.
MaxSeeds == 2

\* The depth at which the interpreter gives up a recursion (RecursionError).
\* It exceeds the longest chain of distinct names, so only a cycle reaches it.
RecursionLimit == 5

\* ------------------------------------------------------------------------
\* Constants of the program
\* ------------------------------------------------------------------------

R_INCLUDED ==
    {"R", "base", "compiler", "datasets", "graphics", "grDevices", "grid",
     "methods", "parallel", "splines", "stats", "stats4", "tcltk", "utils",
     "tools", "KernSmooth", "MASS", "Matrix", "boot", "class", "cluster",
     "codetools", "foreign", "lattice", "mgcv", "nlme", "nnet", "rpart",
     "spatial", "survival"}

\* ------------------------------------------------------------------------
\* Outcomes of a call
\* ------------------------------------------------------------------------

Return(v) == [kind |-> "return", value |-> v]

\* arg is the set of names the exception carries.
Raise(e, a) == [kind |-> "raise", exc |-> e, arg |-> a]

Raised(S) == {o \in S : o.kind = "raise"}

Range(s) == {s[i] : i \in DOMAIN s}

\* ------------------------------------------------------------------------
\* RPackage
\* ------------------------------------------------------------------------

RPackage(n, v, d) == [name |-> n, version |-> v, deps |-> d]

full_name(p) == p.name \o "_" \o p.version

\* The keys from_raw reads dependencies from.
DependencyKeys == {"Depends", "Imports", "LinkingTo"}

\* from_raw with Imports replacing what Depends gave instead of extending it.
FromInputDictOverwriting(input_dict, found) ==
    IF "Package" \notin DOMAIN input_dict THEN Raise("KeyError", {"Package"})
    ELSE IF "Version" \notin DOMAIN input_dict THEN Raise("KeyError", {"Version"})
    ELSE
      LET deps0 == IF "Depends" \in DOMAIN input_dict THEN found["Depends"] ELSE <<>>
          deps1 == IF "Imports" \in DOMAIN input_dict THEN found["Imports"] ELSE deps0
          deps2 == IF "LinkingTo" \in DOMAIN input_dict
                   THEN deps1 \o found["LinkingTo"] ELSE deps1
      IN Return(RPackage(input_dict["Package"], input_dict["Version"], Range(deps2)))

\* The body of RPackage.from_raw after input_dict is built.  found[k] is
\* re_pkg_name.findall(input_dict[k]) for the dependency keys of input_dict.
FromInputDict(input_dict, found) ==
    IF "Package" \notin DOMAIN input_dict THEN Raise("KeyError", {"Package"})
    ELSE IF "Version" \notin DOMAIN input_dict THEN Raise("KeyError", {"Version"})
    ELSE
      LET name == input_dict["Package"]
          version == input_dict["Version"]
          deps0 == IF "Depends" \in DOMAIN input_dict THEN found["Depends"] ELSE <<>>
          deps1 == IF "Imports" \in DOMAIN input_dict
                   THEN deps0 \o found["Imports"] ELSE deps0
          deps2 == IF "LinkingTo" \in DOMAIN input_dict
                   THEN deps1 \o found["LinkingTo"] ELSE deps1
      IN Return(RPackage(name, version, Range(deps2)))

\* ------------------------------------------------------------------------
\* toposort (the library main imports): toposort and toposort_flatten
\* ------------------------------------------------------------------------

\* sorted(d) for a set of names.
Sorted(d) == SelectSeq(NameOrder, LAMBDA n : n \in d)

\* list(d): the elements of a set in any iteration order.
RECURSIVE Listed(_)
Listed(d) ==
    IF d = {} THEN {<<>>}
    ELSE UNION {{<<x>> \o s : s \in Listed(d \ {x})} : x \in d}

\* The while loop of toposort, and toposort_flatten's extend of each yielded
\* set: the sequences the flattening can give, or CircularDependencyError.
RECURSIVE ToposortLoop(_, _, _)
ToposortLoop(data, result, sort) ==
    LET ordered == {item \in DOMAIN data : data[item] = {}}
        rest == [item \in DOMAIN data \ ordered |-> data[item] \ ordered]
    IN IF ordered = {}
       THEN IF DOMAIN data # {}
            THEN {Raise("CircularDependencyError", DOMAIN data)}
            ELSE {Return(result)}
       ELSE UNION {ToposortLoop(rest, result \o s, sort) :
                     s \in IF sort THEN {Sorted(ordered)} ELSE Listed(ordered)}

toposort_flatten(data, sort) ==
    IF DOMAIN data = {} THEN {Return(<<>>)}
    ELSE
      LET extra_items_in_deps == UNION {data[k] : k \in DOMAIN data} \ DOMAIN data
          full == [item \in DOMAIN data \cup extra_items_in_deps |->
                     IF item \in DOMAIN data THEN data[item] \ {item} ELSE {}]
      IN ToposortLoop(full, <<>>, sort)

\* ------------------------------------------------------------------------
\* Resolution
\* ------------------------------------------------------------------------

\* _get_sub_dependencies(name, repo_package_list) called at recursion depth
\* `depth`.  ForDeps is its loop over package.deps, a set the loop walks in
\* an order the hash seed decides.  A recursive call either returns its one
\* value or raises, whatever the order below it; so the loop returns the
\* union when no call raises, and otherwise raises what the first raising
\* call in the iteration order raises, and any raising call can be the first.
RECURSIVE _get_sub_dependencies(_, _, _)
RECURSIVE ForDeps(_, _, _)
_get_sub_dependencies(name, repo, depth) ==
    IF depth > RecursionLimit THEN {Raise("RecursionError", {})}
    ELSE IF name \notin DOMAIN repo THEN {Raise("KeyError", {name})}
    ELSE ForDeps(repo[name].deps, repo, depth)

ForDeps(package_deps, repo, depth) ==
    LET dep_deps == UNION {_get_sub_dependencies(dep, repo, depth + 1) :
                             dep \in package_deps \ R_INCLUDED}
        raised == Raised(dep_deps)
    IN IF raised # {} THEN raised
       ELSE {Return(package_deps \cup UNION {r.value : r \in dep_deps})}

\* The loop over the seed lines: packages_set after `packages` from index i on.
RECURSIVE ForPackages(_, _, _, _)
ForPackages(packages, i, packages_set, repo) ==
    IF i > Len(packages) THEN {Return(packages_set)}
    ELSE UNION {IF r.kind = "raise" THEN {r}
                ELSE ForPackages(packages, i + 1, packages_set \cup r.value, repo) :
                  r \in _get_sub_dependencies(packages[i], repo, 1)}

\* packages_set as the first half of _generate_full_dependency_list leaves it.
Closure(packages, repo) == ForPackages(packages, 1, Range(packages), repo)

\* pkgs_dict built without the dependencies of its keys.
PkgsDictNoDeps(packages_set, repo) ==
    LET keys == packages_set \ R_INCLUDED
    IN IF keys \subseteq DOMAIN repo
       THEN {Return([name \in keys |-> {}])}
       ELSE {Raise("KeyError", {name}) : name \in keys \ DOMAIN repo}

\* pkgs_dict = {name: repo_package_list[name].deps for name in packages_set
\*              if name not in R_INCLUDED}
PkgsDict(packages_set, repo) ==
    LET keys == packages_set \ R_INCLUDED
    IN IF keys \subseteq DOMAIN repo
       THEN {Return([name \in keys |-> repo[name].deps])}
       ELSE {Raise("KeyError", {name}) : name \in keys \ DOMAIN repo}

\* toposort_flatten called with sort=False.
SortPackagesUnsorted(pkgs_dict) == toposort_flatten(pkgs_dict, FALSE)

\* packages = toposort.toposort_flatten(pkgs_dict)
SortPackages(pkgs_dict) == toposort_flatten(pkgs_dict, TRUE)

\* The final comprehension without its `if package not in R_INCLUDED`.
PackageRecordsUnfiltered(packages, repo) ==
    IF Range(packages) \subseteq DOMAIN repo
    THEN Return([k \in DOMAIN packages |-> repo[packages[k]]])
    ELSE Raise("KeyError",
               {packages[CHOOSE k \in DOMAIN packages :
                           /\ packages[k] \notin DOMAIN repo
                           /\ \A j \in 1..(k - 1) : packages[j] \in DOMAIN repo]})

\* [repo_package_list[package] for package in packages
\*  if package not in R_INCLUDED]
PackageRecords(packages, repo) ==
    LET kept == SelectSeq(packages, LAMBDA p : p \notin R_INCLUDED)
    IN IF Range(kept) \subseteq DOMAIN repo
       THEN Return([i \in DOMAIN kept |-> repo[kept[i]]])
       ELSE Raise("KeyError",
                  {kept[CHOOSE i \in DOMAIN kept :
                          /\ kept[i] \notin DOMAIN repo
                          /\ \A j \in 1..(i - 1) : kept[j] \in DOMAIN repo]})

\* _generate_full_dependency_list for the seed lines `packages`.
_generate_full_dependency_list(packages, repo) ==
    UNION {IF c.kind = "raise" THEN {c} ELSE
      UNION {IF d.kind = "raise" THEN {d} ELSE
        {IF o.kind = "raise" THEN o ELSE PackageRecords(o.value, repo) :
           o \in SortPackages(d.value)} :
        d \in PkgsDict(c.value, repo)} :
      c \in Closure(packages, repo)}

\* ------------------------------------------------------------------------
\* The repository listing
\* ------------------------------------------------------------------------

\* In the pipeline a listing is the sequence of its blocks (the pieces between
\* blank lines).  A block records whether its text starts with "Package:" and
\* the input_dict that re_key_value gives for it; a dependency field holds the
\* sequence of names re_pkg_name finds in its value.  The matching of the
\* three regular expressions on characters is modelled further below.
Block(starts, fields) == [starts_with_package |-> starts, fields |-> fields]

\* re_pkg_name.findall on the dependency fields of a block.
FieldNames(fields) == [k \in DOMAIN fields \cap DependencyKeys |-> fields[k]]

\* _parse_repo_package_list: every block that starts with "Package:" goes
\* through from_raw (the first failure aborts), then the dict comprehension
\* keys the records by name, a later record replacing an earlier one.
RECURSIVE ParseBlocks(_, _, _)
ParseBlocks(raw, i, index) ==
    IF i > Len(raw) THEN Return(index)
    ELSE IF ~raw[i].starts_with_package THEN ParseBlocks(raw, i + 1, index)
    ELSE LET r == FromInputDict(raw[i].fields, FieldNames(raw[i].fields))
         IN IF r.kind = "raise" THEN r
            ELSE ParseBlocks(raw, i + 1, (r.value.name :> r.value) @@ index)

_parse_repo_package_list(raw) == ParseBlocks(raw, 1, <<>>)

\* The dependency graphs of the model: which names have an entry, and the
\* names each entry declares.
EdgeCount(g) == Cardinality({e \in (DOMAIN g) \X Names : e[2] \in g[e[1]]})

Graphs ==
    {g \in UNION {[D -> SUBSET Names] : D \in SUBSET Names} :
       EdgeCount(g) <= MaxEdges}

\* The entry of name n declaring deps: built-in names under Depends, the
\* others under Imports, a field being absent when it would list nothing.
EntryOf(n, deps) ==
    LET builtin == Sorted(deps \cap R_INCLUDED)
        others == Sorted(deps \ R_INCLUDED)
        base == ("Package" :> n) @@ ("Version" :> "1.0")
        d1 == IF builtin = <<>> THEN base ELSE ("Depends" :> builtin) @@ base
        d2 == IF others = <<>> THEN d1 ELSE ("Imports" :> others) @@ d1
    IN Block(TRUE, d2)

\* What splitting leaves after the last blank line: no package entry.
Trailer == Block(FALSE, <<>>)

EntriesOf(g) ==
    LET present == SelectSeq(NameOrder, LAMBDA n : n \in DOMAIN g)
    IN [i \in DOMAIN present |-> EntryOf(present[i], g[present[i]])]

\* A block that starts with "Package:" and lacks the Version line, and one
\* whose Package line has no value (re_key_value finds no Package key).
NoVersionBlock == Block(TRUE, ("Package" :> "C"))

NoPackageBlock == Block(TRUE, ("Version" :> "1.0"))

Listings ==
    UNION {{EntriesOf(g) \o <<Trailer>>,
            EntriesOf(g) \o <<NoVersionBlock, Trailer>>,
            EntriesOf(g) \o <<NoPackageBlock, Trailer>>} : g \in Graphs}

BoundedSeq(S, n) == UNION {[1..k -> S] : k \in 0..n}

\* The seed files: one name a line.
SeedFiles == BoundedSeq(Names, MaxSeeds)

\* ------------------------------------------------------------------------
\* RPackage.from_raw on characters
\* ------------------------------------------------------------------------

\* Here a Python str is the sequence of its characters.

Lower == {"a", "b", "c", "d", "e", "f", "g", "h", "i", "j", "k", "l", "m",
          "n", "o", "p", "q", "r", "s", "t", "u", "v", "w", "x", "y", "z"}

Upper == {"A", "B", "C", "D", "E", "F", "G", "H", "I", "J", "K", "L", "M",
          "N", "O", "P", "Q", "R", "S", "T", "U", "V", "W", "X", "Y", "Z"}

Digit == {"0", "1", "2", "3", "4", "5", "6", "7", "8", "9"}

\* [A-Za-z], [A-Za-z0-9], [A-Za-z0-9_\.] and \s
Letter == Lower \cup Upper

Alnum == Letter \cup Digit

NameChar == Alnum \cup {"_", "."}

Whitespace == {" ", "\t", "\n", "\r", "\f"}

\* The str of a sequence of characters, for use as a dict key.
RECURSIVE Str(_)
Str(chars) == IF chars = <<>> THEN "" ELSE Head(chars) \o Str(Tail(chars))

\* The first position from p on whose character is not in class.
RECURSIVE EndOfRun(_, _, _)
EndOfRun(s, p, class) ==
    IF p <= Len(s) /\ s[p] \in class THEN EndOfRun(s, p + 1, class) ELSE p

\* The first position from p on that holds a newline: where .+ stops.
RECURSIVE EndOfLine(_, _)
EndOfLine(s, p) ==
    IF p <= Len(s) /\ s[p] # "\n" THEN EndOfLine(s, p + 1) ELSE p

\* re_line_fixer.sub(" ", s) from position p on: a newline and the spaces
\* that follow it become one space; everything else is copied, here a line
\* at a time.
RECURSIVE LineFixerSub(_, _)
LineFixerSub(s, p) ==
    LET newline == EndOfLine(s, p)
        copied == SubSeq(s, p, newline - 1)
    IN IF newline > Len(s) THEN copied
       ELSE IF newline < Len(s) /\ s[newline + 1] = " "
            THEN copied \o <<" ">>
                 \o LineFixerSub(s, EndOfRun(s, newline + 1, {" "}))
            ELSE copied \o <<"\n">> \o LineFixerSub(s, newline + 1)

\* A match of re_key_value that starts at p.  The key is the run of
\* [A-Za-z0-9] that a colon ends; \s* takes all the whitespace after the
\* colon, newlines too, and gives back just enough for .+ to take a character
\* of one line; .+ runs to the end of that line.
KeyValueMatch(s, p) ==
    LET colon == EndOfRun(s, p, Alnum)
        rest == EndOfRun(s, colon + 1, Whitespace)
        back == {v \in (colon + 1)..Len(s) : s[v] # "\n"}
        start == IF rest <= Len(s) THEN rest
                 ELSE IF back # {} THEN CHOOSE v \in back : \A u \in back : u <= v
                 ELSE 0
        stop == EndOfLine(s, start)
    IN IF (p = 1 \/ s[p - 1] = "\n") /\ colon > p /\ colon <= Len(s)
          /\ s[colon] = ":" /\ start > 0
       THEN [found |-> TRUE, key |-> SubSeq(s, p, colon - 1),
             value |-> SubSeq(s, start, stop - 1), end |-> stop]
       ELSE [found |-> FALSE, key |-> <<>>, value |-> <<>>, end |-> p + 1]

\* re_key_value.findall(s) from position p on: the (key, value) pairs.  A
\* match starts at the start of a line, so after a failure at p the search
\* goes on behind the next newline.
RECURSIVE KeyValueFindAll(_, _)
KeyValueFindAll(s, p) ==
    IF p > Len(s) THEN <<>>
    ELSE LET m == KeyValueMatch(s, p)
         IN IF m.found
            THEN <<<<m.key, m.value>>>> \o KeyValueFindAll(s, m.end)
            ELSE KeyValueFindAll(s, EndOfLine(s, p) + 1)

\* dict(pairs): a later pair replaces an earlier one with the same key.
RECURSIVE Dict(_, _)
Dict(pairs, n) ==
    IF n = 0 THEN <<>>
    ELSE (Str(pairs[n][1]) :> pairs[n][2]) @@ Dict(pairs, n - 1)

\* re_pkg_name.findall(s) from position p on: a letter and the longest run of
\* [A-Za-z0-9_\.], one character at least, that follows it.
RECURSIVE PkgNameFindAll(_, _)
PkgNameFindAll(s, p) ==
    IF p > Len(s) THEN <<>>
    ELSE IF s[p] \in Letter /\ p < Len(s) /\ s[p + 1] \in NameChar
         THEN LET stop == EndOfRun(s, p + 1, NameChar)
              IN <<SubSeq(s, p, stop - 1)>> \o PkgNameFindAll(s, stop)
         ELSE PkgNameFindAll(s, p + 1)

\* re_pkg_name.findall on the dependency fields of input_dict.
NamesFound(input_dict) ==
    [k \in DOMAIN input_dict \cap DependencyKeys |-> PkgNameFindAll(input_dict[k], 1)]

\* ------------------------------------------------------------------------
\* Raw entries, built as the tests build them
\* ------------------------------------------------------------------------

\* The most entries of a Depends, Imports or LinkingTo list.
MaxItems == 2

\* An entry of a dependency list as it is written, and the name it declares
\* (none when what is written holds no name of two characters or more).
Item(text, name) == [text |-> text, name |-> name]

\* "ab"
ItemPlain == Item(<<"a", "b">>, <<"a", "b">>)

\* "c_d.e (>= 1.0)"
ItemConstrained ==
    Item(<<"c", "_", "d", ".", "e", " ", "(", ">", "=", " ", "1", ".", "0", ")">>,
         <<"c", "_", "d", ".", "e">>)

\* "R (>= 3.5)"
ItemR == Item(<<"R", " ", "(", ">", "=", " ", "3", ".", "5", ")">>, <<>>)

\* "B2" on a continuation line of its own
ItemWrapped == Item(<<"\n", " ", " ", " ", " ", "B", "2">>, <<"B", "2">>)

\* A list argument of the generator: None, or a list of entries.
ListArgs(items) ==
    {[given |-> FALSE, items |-> <<>>]}
    \cup {[given |-> TRUE, items |-> l] : l \in BoundedSeq(items, MaxItems) \ {<<>>}}

PackageArgs ==
    [name : {<<"a", "b">>, <<"x", ".", "y">>},
     version : {<<"1", ".", "0">>, <<"0", ".", "3", "-", "2">>},
     depends : ListArgs({ItemR, ItemPlain}),
     imports : ListArgs({ItemPlain, ItemConstrained}),
     linking_to : ListArgs({ItemWrapped, ItemPlain})]

\* sep.join(parts)
RECURSIVE Join(_, _)
Join(parts, sep) ==
    IF parts = <<>> THEN <<>>
    ELSE IF Len(parts) = 1 THEN parts[1]
    ELSE parts[1] \o sep \o Join(Tail(parts), sep)

Texts(items) == [k \in DOMAIN items |-> items[k].text]

KeyLine(key, value) == key \o <<":", " ">> \o value

\* _generate_raw_package_input of the tests.
_generate_raw_package_input(a) ==
    LET comma == <<",", " ">>
        head == <<KeyLine(<<"P", "a", "c", "k", "a", "g", "e">>, a.name),
                  KeyLine(<<"V", "e", "r", "s", "i", "o", "n">>, a.version)>>
        depends == IF a.depends.given
                   THEN <<KeyLine(<<"D", "e", "p", "e", "n", "d", "s">>,
                                  Join(Texts(a.depends.items), comma))>>
                   ELSE <<>>
        imports == IF a.imports.given
                   THEN <<KeyLine(<<"I", "m", "p", "o", "r", "t", "s">>,
                                  Join(Texts(a.imports.items), comma))>>
                   ELSE <<>>
        linking == IF a.linking_to.given
                   THEN <<KeyLine(<<"L", "i", "n", "k", "i", "n", "g", "T", "o">>,
                                  Join(Texts(a.linking_to.items), comma))>>
                   ELSE <<>>
        tail == <<KeyLine(<<"L", "i", "c", "e", "n", "s", "e">>,
                          <<"G", "P", "L", "-", "3">>),
                  KeyLine(<<"N", "e", "e", "d", "s", "C", "o", "m", "p", "i", "l",
                            "a", "t", "i", "o", "n">>, <<"n", "o">>)>>
    IN Join(head \o depends \o imports \o linking \o tail, <<"\n">>)

\* ------------------------------------------------------------------------
\* main
\* ------------------------------------------------------------------------

VARIABLES
    pc,                     \* where main stands
    args,                   \* the parsed command line
    raw_repo_package_list,  \* the listing as downloaded
    repo_package_list,      \* name -> RPackage
    packages,               \* the lines of the seed file, stripped
    dependencies,           \* the ordered list of RPackage
    stdout,                 \* what has been printed
    i,                      \* the index of the build loop
    trace,                  \* the download and build commands run so far
    error,                  \* the exception that ended the run
    call_args,              \* what a raw entry was generated from
    raw_input,              \* from_raw: its argument
    input_dict,             \* from_raw: the dict of the key and value pairs
    r_package,              \* from_raw: what it returned or raised
    step                    \* from_raw: where it stands

main_vars == <<pc, args, raw_repo_package_list, repo_package_list, packages,
               dependencies, stdout, i, trace, error>>

from_raw_vars == <<call_args, raw_input, input_dict, r_package, step>>

vars == <<main_vars, from_raw_vars>>

NoError == [kind |-> "none"]

NoArgs == [given |-> FALSE, items |-> <<>>]

\* main about to run; no call of from_raw on characters is followed.
MainInit ==
    /\ pc = "parse_args"
    /\ args = [build |-> FALSE]
    /\ raw_repo_package_list = <<>>
    /\ repo_package_list = <<>>
    /\ packages = <<>>
    /\ dependencies = <<>>
    /\ stdout = <<>>
    /\ i = 0
    /\ trace = <<>>
    /\ error = NoError

Init ==
    /\ MainInit
    /\ call_args = [name |-> <<>>, version |-> <<>>, depends |-> NoArgs,
                    imports |-> NoArgs, linking_to |-> NoArgs]
    /\ raw_input = <<>>
    /\ input_dict = <<>>
    /\ r_package = NoError
    /\ step = "idle"

\* An uncaught exception ends the run; `at` is the statement of main it
\* passed through.
Abort(e) ==
    /\ pc' = "aborted"
    /\ error' = [kind |-> "raise", exc |-> e.exc, arg |-> e.arg, at |-> pc]

\* args = _parse_args()
ParseArgs ==
    /\ pc = "parse_args"
    /\ \E b \in BOOLEAN : args' = [build |-> b]
    /\ pc' = "download_list"
    /\ UNCHANGED <<from_raw_vars, raw_repo_package_list, repo_package_list, packages,
                   dependencies, stdout, i, trace, error>>

\* raw_repo_package_list = _download_raw_repo_package_list(repo_url)
DownloadListOk ==
    /\ pc = "download_list"
    /\ \E l \in Listings : raw_repo_package_list' = l
    /\ pc' = "parse_list"
    /\ UNCHANGED <<from_raw_vars, args, repo_package_list, packages, dependencies, stdout,
                   i, trace, error>>

DownloadListFails ==
    /\ pc = "download_list"
    /\ Abort(Raise("URLError", {}))
    /\ UNCHANGED <<from_raw_vars, args, raw_repo_package_list, repo_package_list, packages,
                   dependencies, stdout, i, trace>>

\* repo_package_list = _parse_repo_package_list(raw_repo_package_list)
ParseList ==
    /\ pc = "parse_list"
    /\ LET r == _parse_repo_package_list(raw_repo_package_list)
       IN IF r.kind = "raise"
          THEN Abort(r) /\ UNCHANGED repo_package_list
          ELSE /\ repo_package_list' = r.value
               /\ pc' = "generate"
               /\ UNCHANGED error
    /\ UNCHANGED <<from_raw_vars, args, raw_repo_package_list, packages, dependencies,
                   stdout, i, trace>>

\* main catching a failed resolution and going on with an empty list.
GenerateKeepsGoing ==
    /\ pc = "generate"
    /\ \E file \in SeedFiles :
         \E r \in _generate_full_dependency_list(file, repo_package_list) :
           /\ packages' = file
           /\ dependencies' = IF r.kind = "raise" THEN <<>> ELSE r.value
           /\ pc' = "print"
    /\ UNCHANGED <<from_raw_vars, args, raw_repo_package_list, repo_package_list, stdout,
                   i, trace, error>>

\* dependencies = _generate_full_dependency_list(path, repo_package_list)
Generate ==
    /\ pc = "generate"
    /\ \E file \in SeedFiles :
         \E r \in _generate_full_dependency_list(file, repo_package_list) :
           /\ packages' = file
           /\ IF r.kind = "raise"
              THEN Abort(r) /\ UNCHANGED dependencies
              ELSE /\ dependencies' = r.value
                   /\ pc' = "print"
                   /\ UNCHANGED error
    /\ UNCHANGED <<from_raw_vars, args, raw_repo_package_list, repo_package_list, stdout,
                   i, trace>>

\* print(dependencies); if args.build: ...
PrintList ==
    /\ pc = "print"
    /\ stdout' = Append(stdout, dependencies)
    /\ IF args.build
       THEN pc' = "download" /\ i' = 1
       ELSE pc' = "done" /\ UNCHANGED i
    /\ UNCHANGED <<from_raw_vars, args, raw_repo_package_list, repo_package_list, packages,
                   dependencies, trace, error>>

Command(op, p, ok) == [op |-> op, file |-> full_name(p), ok |-> ok]

\* package.download(repo_url): wget run with check=True.
Download ==
    /\ pc = "download"
    /\ i <= Len(dependencies)
    /\ \E ok \in BOOLEAN :
         /\ trace' = Append(trace, Command("download", dependencies[i], ok))
         /\ IF ok
            THEN pc' = "build" /\ UNCHANGED error
            ELSE Abort(Raise("CalledProcessError", {dependencies[i].name}))
    /\ UNCHANGED <<from_raw_vars, args, raw_repo_package_list, repo_package_list, packages,
                   dependencies, stdout, i>>

\* package.build() run without check=True: a failed build goes unnoticed.
BuildUnchecked ==
    /\ pc = "build"
    /\ \E ok \in BOOLEAN :
         trace' = Append(trace, Command("build", dependencies[i], ok))
    /\ pc' = "download"
    /\ i' = i + 1
    /\ UNCHANGED <<from_raw_vars, args, raw_repo_package_list, repo_package_list, packages,
                   dependencies, stdout, error>>

\* package.build(): R CMD INSTALL run with check=True.
Build ==
    /\ pc = "build"
    /\ \E ok \in BOOLEAN :
         /\ trace' = Append(trace, Command("build", dependencies[i], ok))
         /\ IF ok
            THEN pc' = "download" /\ i' = i + 1 /\ UNCHANGED error
            ELSE /\ Abort(Raise("CalledProcessError", {dependencies[i].name}))
                 /\ UNCHANGED i
    /\ UNCHANGED <<from_raw_vars, args, raw_repo_package_list, repo_package_list, packages,
                   dependencies, stdout>>

\* The loop of _download_and_build_dependencies is exhausted.
BuildDone ==
    /\ pc = "download"
    /\ i > Len(dependencies)
    /\ pc' = "done"
    /\ UNCHANGED <<from_raw_vars, args, raw_repo_package_list, repo_package_list, packages,
                   dependencies, stdout, i, trace, error>>

Next ==
    \/ ParseArgs
    \/ DownloadListOk
    \/ DownloadListFails
    \/ ParseList
    \/ Generate
    \/ PrintList
    \/ Download
    \/ Build
    \/ BuildDone

Spec == Init /\ [][Next]_vars

\* ------------------------------------------------------------------------
\* A call of RPackage.from_raw, statement by statement
\* ------------------------------------------------------------------------

\* from_raw is called on an entry the generator built.
FromRawInit ==
    /\ MainInit
    /\ call_args \in PackageArgs
    /\ raw_input = _generate_raw_package_input(call_args)
    /\ input_dict = <<>>
    /\ r_package = NoError
    /\ step = "line_fixer"

\* raw_input = re_line_fixer.sub(" ", raw_input)
FixLines ==
    /\ step = "line_fixer"
    /\ raw_input' = LineFixerSub(raw_input, 1)
    /\ step' = "key_value"
    /\ UNCHANGED <<main_vars, call_args, input_dict, r_package>>

\* input_dict = dict(re_key_value.findall(raw_input))
FindKeyValues ==
    /\ step = "key_value"
    /\ LET pairs == KeyValueFindAll(raw_input, 1)
       IN input_dict' = Dict(pairs, Len(pairs))
    /\ step' = "fields"
    /\ UNCHANGED <<main_vars, call_args, raw_input, r_package>>

\* name = input_dict["Package"] ... return cls(name, version, set(deps))
MakePackage ==
    /\ step = "fields"
    /\ r_package' = FromInputDict(input_dict, NamesFound(input_dict))
    /\ step' = "returned"
    /\ UNCHANGED <<main_vars, call_args, raw_input, input_dict>>

FromRawNext ==
    \/ FixLines
    \/ FindKeyValues
    \/ MakePackage

SpecFromRaw == FromRawInit /\ [][FromRawNext]_vars

\* ------------------------------------------------------------------------
\* Definitions the properties are stated with
\* ------------------------------------------------------------------------

\* The names an entry of the index declares (none for an unknown name).
DepsOf(n) == IF n \in DOMAIN repo_package_list THEN repo_package_list[n].deps ELSE {}

\* The least set that holds S and the dependencies of each of its members
\* that is in `expanded`.
RECURSIVE Grow(_, _)
Grow(S, expanded) ==
    LET next == S \cup UNION {DepsOf(n) : n \in S \cap expanded}
    IN IF next = S THEN S ELSE Grow(next, expanded)

NotBuiltin == Names \ R_INCLUDED

Seeds == Range(packages)

\* Seeds are expanded, and so is every non-built-in name found.
Reachable == Grow(Seeds, Seeds \cup NotBuiltin)

\* No built-in name is expanded, seed or not.
StrictlyReachable == Grow(Seeds, NotBuiltin)

\* Names resolution has to look up and the index lacks.
Missing == (Seeds \cup (Reachable \ R_INCLUDED)) \ DOMAIN repo_package_list

\* The non-built-in names below n.
Below(n) == Grow(DepsOf(n) \ R_INCLUDED, NotBuiltin) \ R_INCLUDED

\* The non-built-in names that lie on a dependency cycle a seed reaches.
OnReachedCycle == {n \in Reachable \ R_INCLUDED : n \in Below(n)}

\* _generate_full_dependency_list has returned or raised.
GenerateReturned == pc \in {"print", "download", "build", "done"}
                    \/ (pc = "aborted" /\ error.at \in {"download", "build"})

GenerateRaised == pc = "aborted" /\ error.at = "generate"

ListNames == [k \in DOMAIN dependencies |-> dependencies[k].name]

\* ------------------------------------------------------------------------
\* Properties
\* ------------------------------------------------------------------------

\* C1: in a returned list every package comes after each of its direct
\* dependencies that is not built in.
C1_DependenciesFirst ==
    GenerateReturned =>
      \A k \in DOMAIN dependencies :
        \A d \in repo_package_list[dependencies[k].name].deps \ R_INCLUDED :
          \E j \in 1..(k - 1) : dependencies[j].name = d

\* A list of three where the last depends on the second and the second on
\* the first.
C1_Witness ==
    /\ pc = "print"
    /\ Len(dependencies) = 3
    /\ dependencies[1].name \in dependencies[2].deps
    /\ dependencies[2].name \in dependencies[3].deps

\* C2: the names of a returned list are the seeds and the names their
\* expansion discovers, less the built-in names, each once.
C2_ListIsClosure ==
    GenerateReturned =>
      /\ Range(ListNames) = Reachable \ R_INCLUDED
      /\ \A j, k \in DOMAIN ListNames : ListNames[j] = ListNames[k] => j = k
      /\ Range(ListNames) \cap R_INCLUDED = {}

\* A built-in seed that has an entry, and a package only discovered.
C2_Witness ==
    /\ pc = "print"
    /\ Seeds \cap R_INCLUDED \cap DOMAIN repo_package_list # {}
    /\ Range(ListNames) \ Seeds # {}
    /\ Seeds \ R_INCLUDED # {}

\* C3 as claimed: when a seed or a reached non-built-in dependency has no
\* entry, resolution raises KeyError naming such a name.
C3_UnknownPackageError ==
    (GenerateReturned \/ GenerateRaised) /\ Missing # {} =>
      /\ GenerateRaised
      /\ error.exc = "KeyError"
      /\ error.arg # {}
      /\ error.arg \subseteq Missing

\* C4 as claimed: when a seed reaches a cycle of non-built-in packages,
\* resolution ends in a cycle error naming a package of a cycle.
C4_CycleError ==
    (GenerateReturned \/ GenerateRaised) /\ OnReachedCycle # {} =>
      /\ GenerateRaised
      /\ error.exc = "CircularDependencyError"
      /\ error.arg \cap OnReachedCycle # {}

\* The lists the generator was given.
ListsGiven ==
    {l \in {call_args.depends, call_args.imports, call_args.linking_to} : l.given}

\* C5: from_raw returns a record with the Package and Version values of the
\* entry, whose deps hold every name an entry of Depends, Imports or
\* LinkingTo declares, whichever of the three fields are present.
C5_FromRaw ==
    step = "returned" =>
      /\ r_package.kind = "return"
      /\ r_package.value.name = call_args.name
      /\ r_package.value.version = call_args.version
      /\ \A l \in ListsGiven :
           \A k \in DOMAIN l.items :
             l.items[k].name # <<>> => l.items[k].name \in r_package.value.deps

\* An entry without Depends, with two Imports, one of them constrained, and
\* a LinkingTo written on a continuation line.
C5_Witness ==
    /\ step = "returned"
    /\ ~call_args.depends.given
    /\ call_args.imports.given
    /\ call_args.imports.items = <<ItemConstrained, ItemPlain>>
    /\ call_args.linking_to.given
    /\ call_args.linking_to.items = <<ItemWrapped>>
    /\ r_package.kind = "return"
    /\ r_package.value.deps = {ItemConstrained.name, ItemPlain.name, ItemWrapped.name}

\* C6 as claimed: the dependencies of a built-in package are never explored,
\* so a returned list holds only names reachable without expanding a built-in
\* name, and no built-in name is ever reported unknown.
C6_BuiltinsNotExplored ==
    /\ GenerateReturned => Range(ListNames) \subseteq StrictlyReachable
    /\ GenerateRaised /\ error.exc = "KeyError" => error.arg \cap R_INCLUDED = {}

\* C7 as claimed: the closure computed again from a closure set as the seed
\* list, in any order of its names, succeeds and is that set.
C7_ClosureIdempotent ==
    pc = "print" =>
      \A c \in Closure(packages, repo_package_list) :
        c.kind = "return" =>
          \A again \in Listed(c.value) :
            \A c2 \in Closure(again, repo_package_list) :
              c2.kind = "return" /\ c2.value = c.value

\* C8: a run that fails before the list is complete prints nothing and runs
\* no command, and what is printed is the complete ordered list.
C8_NoPartialSuccess ==
    /\ pc = "aborted" /\ error.at \in {"download_list", "parse_list", "generate"}
         => stdout = <<>> /\ trace = <<>>
    /\ pc \in {"parse_args", "download_list", "parse_list", "generate", "print"}
         => stdout = <<>> /\ trace = <<>>
    /\ stdout # <<>> =>
         /\ stdout = <<dependencies>>
         /\ Range(ListNames) = Reachable \ R_INCLUDED
         /\ Missing = {}
         /\ OnReachedCycle = {}

\* A run with the build flag set whose resolution raised.
C8_Witness ==
    /\ GenerateRaised
    /\ args.build
    /\ error.exc = "KeyError"
    /\ Cardinality(DOMAIN repo_package_list) >= 2

\* The k-th command of the complete sequence.
ExpectedCommand(k) ==
    [op |-> IF k % 2 = 1 THEN "download" ELSE "build",
     file |-> full_name(dependencies[(k + 1) \div 2])]

Failed == {k \in DOMAIN trace : ~trace[k].ok}

C10_Deterministic ==
    pc = "print" \/ GenerateRaised =>
      \A file \in SeedFiles :
        Range(file) = Seeds =>
          \A r \in _generate_full_dependency_list(file, repo_package_list) :
            IF pc = "print" THEN r = Return(dependencies) ELSE r.kind = "raise"

\* Two seeds in an order other than the sorted one, neither depending on the
\* other, and a third package above them.
C10_Witness ==
    /\ pc = "print"
    /\ Len(packages) = 2
    /\ packages[1] # packages[2]
    /\ Len(dependencies) = 3
    /\ dependencies[1].deps = {}
    /\ dependencies[2].deps = {}
    /\ packages[1] = dependencies[2].name

====
